---- MODULE Spec2Model ----
(***************************************************************************)
(* Model of the chat hub of nest-chat-app: the in-memory registry          *)
(* EventsService (users, userObjects, groups, clientGroups) and the        *)
(* Socket.IO gateway EventsGateway that drives it and emits events.        *)
(*                                                                         *)
(* Two specifications are defined over the same state:                     *)
(*   Spec     the gateway: one action per lifecycle hook and per           *)
(*            @SubscribeMessage handler, each with the service call it     *)
(*            makes and the events it emits;                               *)
(*   SvcSpec  the service alone: one action per mutating public method of  *)
(*            EventsService, called with arbitrary arguments.              *)
(***************************************************************************)
EXTENDS Integers, Sequences, FiniteSets, TLC

\* ------------------------------------------------------------------ bounds
NumClients == 2                   \* sockets that ever connect
NumGroupIds == 1                  \* distinct group ids clients send
NumPmClients == 3                 \* sockets that ever connect in PmSpec

ClientIds == 1..NumClients        \* socket ids (client.id)
GroupIds == 1..NumGroupIds        \* caller-supplied group ids
Usernames == {"alice", ""}        \* payload of 'join' (any string, also the empty one)
GroupNames == {"T"}
Messages == {"hi"}
Timestamps == {"t1"}              \* results of new Date().toISOString()

\* --------------------------------------------------------------- JS values
Undefined == [undefined |-> TRUE]

\* A JS Map is a sequence of entries [k, v] in insertion order.
MapHas(m, k) == \E i \in 1..Len(m) : m[i].k = k
MapGet(m, k) ==
    IF MapHas(m, k) THEN m[CHOOSE i \in 1..Len(m) : m[i].k = k].v ELSE Undefined
MapSet(m, k, v) ==
    IF MapHas(m, k)
    THEN [i \in 1..Len(m) |-> IF m[i].k = k THEN [k |-> k, v |-> v] ELSE m[i]]
    ELSE Append(m, [k |-> k, v |-> v])
MapDelete(m, k) == SelectSeq(m, LAMBDA e : e.k # k)
MapValues(m) == [i \in 1..Len(m) |-> m[i].v]

\* Array helpers
Includes(arr, x) == \E i \in 1..Len(arr) : arr[i] = x
Filter(arr, x) == SelectSeq(arr, LAMBDA y : y # x)      \* arr.filter(id => id !== x)
Elems(arr) == {arr[i] : i \in 1..Len(arr)}

\* ------------------------------------------------------------------- state
VARIABLES
    users,          \* EventsService.users: Map clientId -> username
    userObjects,    \* EventsService.userObjects: Map clientId -> User
    groups,         \* EventsService.groups: Map groupId -> ChatGroup
    clientGroups,   \* EventsService.clientGroups: Map clientId -> groupId[]
    sockets,        \* transport: clientId -> "fresh" | "connected" | "closed"
    rooms,          \* transport: groupId -> sockets in room `group:${groupId}`
    out,            \* the deliveries made by the last handler, in order
    last            \* the last call: [op, client, groupId, arg, repeat]

registry == <<users, userObjects, groups, clientGroups>>
vars == <<users, userObjects, groups, clientGroups, sockets, rooms, out, last>>

Init ==
    /\ users = <<>>
    /\ userObjects = <<>>
    /\ groups = <<>>
    /\ clientGroups = <<>>      \* the function with the empty domain
    /\ sockets = [c \in ClientIds |-> "fresh"]
    /\ rooms = [g \in GroupIds |-> {}]
    /\ out = <<>>
    /\ last = [op |-> "init", client |-> 0, groupId |-> 0, arg |-> "", repeat |-> FALSE]

\* The record of a call; repeat says the call before it was the very same call.
Call(op, client, groupId, arg) ==
    [op |-> op, client |-> client, groupId |-> groupId, arg |-> arg,
     repeat |-> (/\ last.op = op
                 /\ last.client = client
                 /\ last.groupId = groupId
                 /\ last.arg = arg)]

\* --------------------------------------------------------- EventsService
\* clientGroups is only ever read and written by key (get, set, delete), so its
\* insertion order is unobservable: it is the function from its keys to their arrays.
KeyedSet(m, k, v) == [x \in (DOMAIN m) \cup {k} |-> IF x = k THEN v ELSE m[x]]
KeyedDelete(m, k) == [x \in (DOMAIN m) \ {k} |-> m[x]]

\* this.clientGroups.get(clientId) || []
GroupsOrEmpty(clientId) ==
    IF clientId \in DOMAIN clientGroups THEN clientGroups[clientId] ELSE <<>>

addUser(clientId, username) ==
    /\ users' = MapSet(users, clientId, username)
    /\ userObjects' = MapSet(userObjects, clientId,
                             [clientId |-> clientId, username |-> username])
    /\ clientGroups' = KeyedSet(clientGroups, clientId, <<>>)
    /\ UNCHANGED groups

\* Variant of removeUser: walks every group and removes the client with
\* members.splice(members.indexOf(clientId), 1), which drops the last member
\* when the client is not in the array.
removeUserSplice(clientId) ==
    LET splice(members) ==
            IF Includes(members, clientId)
            THEN LET i == CHOOSE j \in 1..Len(members) :
                             /\ members[j] = clientId
                             /\ \A k \in 1..(j - 1) : members[k] # clientId
                 IN SubSeq(members, 1, i - 1) \o SubSeq(members, i + 1, Len(members))
            ELSE SubSeq(members, 1, Len(members) - 1)
    IN
    /\ groups' = [i \in 1..Len(groups) |->
                    [groups[i] EXCEPT !.v.members = splice(@)]]
    /\ users' = MapDelete(users, clientId)
    /\ userObjects' = MapDelete(userObjects, clientId)
    /\ clientGroups' = KeyedDelete(clientGroups, clientId)

removeUser(clientId) ==
    LET userGroups == GroupsOrEmpty(clientId) IN
    /\ groups' = [i \in 1..Len(groups) |->
                    IF Includes(userGroups, groups[i].k)
                    THEN [groups[i] EXCEPT !.v.members = Filter(@, clientId)]
                    ELSE groups[i]]
    /\ users' = MapDelete(users, clientId)
    /\ userObjects' = MapDelete(userObjects, clientId)
    /\ clientGroups' = KeyedDelete(clientGroups, clientId)

getUser(clientId) == MapGet(users, clientId)
getUserObject(clientId) == MapGet(userObjects, clientId)
getAllUsers == MapValues(users)
getAllUserObjects == MapValues(userObjects)

\* createGroup throws exactly when the id is taken
createGroupThrows(groupId) == MapHas(groups, groupId)
createGroupError(groupId) ==
    "Group with ID " \o ToString(groupId) \o " already exists"

\* Variant of createGroup that stores the group but does not add it to the
\* creator's clientGroups entry.
createGroupNoIndex(groupId, groupName, creatorClientId) ==
    /\ ~createGroupThrows(groupId)
    /\ groups' = MapSet(groups, groupId,
                        [id |-> groupId, name |-> groupName,
                         createdBy |-> creatorClientId,
                         members |-> <<creatorClientId>>])
    /\ UNCHANGED <<users, userObjects, clientGroups>>

createGroup(groupId, groupName, creatorClientId) ==
    /\ ~createGroupThrows(groupId)
    /\ groups' = MapSet(groups, groupId,
                        [id |-> groupId, name |-> groupName,
                         createdBy |-> creatorClientId,
                         members |-> <<creatorClientId>>])
    /\ clientGroups' = KeyedSet(clientGroups, creatorClientId,
                              Append(GroupsOrEmpty(creatorClientId), groupId))
    /\ UNCHANGED <<users, userObjects>>

joinGroupThrows(groupId) == ~MapHas(groups, groupId)
joinGroupError(groupId) ==
    "Group with ID " \o ToString(groupId) \o " not found"

\* Variant of joinGroup without the members.includes(clientId) test.
joinGroupNoIncludes(groupId, clientId) ==
    /\ ~joinGroupThrows(groupId)
    /\ LET group == MapGet(groups, groupId) IN
       /\ groups' = MapSet(groups, groupId,
                           [group EXCEPT !.members = Append(@, clientId)])
       /\ clientGroups' = KeyedSet(clientGroups, clientId,
                                 Append(GroupsOrEmpty(clientId), groupId))
    /\ UNCHANGED <<users, userObjects>>

joinGroup(groupId, clientId) ==
    /\ ~joinGroupThrows(groupId)
    /\ LET group == MapGet(groups, groupId) IN
       IF ~Includes(group.members, clientId)
       THEN /\ groups' = MapSet(groups, groupId,
                                [group EXCEPT !.members = Append(@, clientId)])
            /\ clientGroups' = KeyedSet(clientGroups, clientId,
                                      Append(GroupsOrEmpty(clientId), groupId))
       ELSE UNCHANGED <<groups, clientGroups>>
    /\ UNCHANGED <<users, userObjects>>

\* Variant of leaveGroup that updates the group but leaves the client's
\* clientGroups entry as it is.
leaveGroupNoIndex(groupId, clientId) ==
    IF ~MapHas(groups, groupId)
    THEN UNCHANGED registry
    ELSE LET group == MapGet(groups, groupId)
             members == Filter(group.members, clientId)
         IN /\ groups' = IF Len(members) = 0
                         THEN MapDelete(groups, groupId)
                         ELSE MapSet(groups, groupId, [group EXCEPT !.members = members])
            /\ UNCHANGED <<users, userObjects, clientGroups>>

leaveGroup(groupId, clientId) ==
    IF ~MapHas(groups, groupId)
    THEN UNCHANGED registry
    ELSE LET group == MapGet(groups, groupId)
             members == Filter(group.members, clientId)
         IN /\ groups' = IF Len(members) = 0
                         THEN MapDelete(groups, groupId)
                         ELSE MapSet(groups, groupId, [group EXCEPT !.members = members])
            /\ clientGroups' = KeyedSet(clientGroups, clientId,
                                      Filter(GroupsOrEmpty(clientId), groupId))
            /\ UNCHANGED <<users, userObjects>>

getGroup(groupId) == MapGet(groups, groupId)
getAllGroups == MapValues(groups)

getGroupMembers(groupId) ==
    IF ~MapHas(groups, groupId)
    THEN <<>>
    ELSE LET ids == SelectSeq(MapGet(groups, groupId).members,
                              LAMBDA clientId : MapHas(userObjects, clientId))
         IN [i \in 1..Len(ids) |-> MapGet(userObjects, ids[i])]

getUserGroups(clientId) ==
    LET ids == SelectSeq(GroupsOrEmpty(clientId), LAMBDA groupId : MapHas(groups, groupId))
    IN [i \in 1..Len(ids) |-> MapGet(groups, ids[i])]

\* ----------------------------------------------- the service driven alone
transport == <<sockets, rooms, out>>

SvcAddUser(c, n) ==
    /\ addUser(c, n)
    /\ last' = Call("addUser", c, 0, n)
    /\ UNCHANGED transport

SvcRemoveUser(c) ==
    /\ removeUser(c)
    /\ last' = Call("removeUser", c, 0, "")
    /\ UNCHANGED transport

SvcCreateGroup(g, n, c) ==
    /\ IF createGroupThrows(g) THEN UNCHANGED registry ELSE createGroup(g, n, c)
    /\ last' = Call("createGroup", c, g, IF createGroupThrows(g) THEN "throw" ELSE n)
    /\ UNCHANGED transport

SvcJoinGroup(g, c) ==
    /\ IF joinGroupThrows(g) THEN UNCHANGED registry ELSE joinGroup(g, c)
    /\ last' = Call("joinGroup", c, g, IF joinGroupThrows(g) THEN "throw" ELSE "")
    /\ UNCHANGED transport

SvcLeaveGroup(g, c) ==
    /\ leaveGroup(g, c)
    /\ last' = Call("leaveGroup", c, g, "")
    /\ UNCHANGED transport

SvcNext ==
    \/ \E c \in ClientIds, n \in Usernames : SvcAddUser(c, n)
    \/ \E c \in ClientIds : SvcRemoveUser(c)
    \/ \E g \in GroupIds, n \in GroupNames, c \in ClientIds : SvcCreateGroup(g, n, c)
    \/ \E g \in GroupIds, c \in ClientIds : SvcJoinGroup(g, c)
    \/ \E g \in GroupIds, c \in ClientIds : SvcLeaveGroup(g, c)

SvcSpec == Init /\ [][SvcNext]_vars

\* --------------------------------------------------------- EventsGateway
Connected == {c \in DOMAIN sockets : sockets[c] = "connected"}

\* A delivery: who is sent which event with which payload.
\* this.server.emit(event, data): every connected socket
ServerEmit(event, data) ==
    [scope |-> "all", room |-> "", to |-> Connected', event |-> event, data |-> data]
\* this.server.to(`group:${groupId}`).emit(event, data): the sockets in the room
RoomEmit(groupId, event, data) ==
    [scope |-> "room", room |-> "group:" \o ToString(groupId), to |-> rooms'[groupId],
     event |-> event, data |-> data]
\* Variant of DirectEmit that addresses every connected socket, as
\* this.server.emit(event, data) does.
DirectEmitToAll(clientId, event, data) ==
    [scope |-> "direct", room |-> ToString(clientId),
     to |-> Connected', event |-> event, data |-> data]

\* this.server.to(clientId).emit(event, data): the room every socket has under its own id
DirectEmit(clientId, event, data) ==
    [scope |-> "direct", room |-> ToString(clientId),
     to |-> {clientId} \cap Connected', event |-> event, data |-> data]
\* return { event, data }: sent to the requesting socket only
Reply(client, event, data) ==
    [scope |-> "requester", room |-> "", to |-> {client}, event |-> event, data |-> data]

ErrorData(message) == [message |-> message]

\* if (username), for the result of getUser(clientId): undefined (no entry) and
\* the empty string are falsy
TruthyUser(clientId) == MapHas(users, clientId) /\ getUser(clientId) # ""

handleConnection(client) ==
    /\ sockets[client] = "fresh"
    /\ sockets' = [sockets EXCEPT ![client] = "connected"]
    /\ out' = <<>>
    /\ last' = Call("connection", client, 0, "")
    /\ UNCHANGED <<registry, rooms>>

\* Runs on the socket's 'disconnect' event, when Socket.IO has already taken the
\* socket out of every room.
handleDisconnect(client) ==
    /\ sockets[client] = "connected"
    /\ sockets' = [sockets EXCEPT ![client] = "closed"]
    /\ rooms' = [g \in GroupIds |-> rooms[g] \ {client}]
    /\ removeUser(client)
    /\ out' = <<ServerEmit("users", getAllUsers')>>
              \o (IF TruthyUser(client)
                  THEN <<ServerEmit("userLeft", getUser(client))>>
                  ELSE <<>>)
    /\ last' = Call("disconnect", client, 0, "")

handleMessage(client, data) ==
    /\ sockets[client] = "connected"
    /\ out' = <<Reply(client, "ack", data)>>
    /\ last' = Call("message", client, 0, data)
    /\ UNCHANGED <<registry, sockets, rooms>>

handleBroadcast(client, data) ==
    /\ sockets[client] = "connected"
    /\ UNCHANGED <<registry, sockets, rooms>>
    /\ out' = <<ServerEmit("broadcast", data)>>
    /\ last' = Call("broadcast", client, 0, data)

handleJoin(client, username) ==
    /\ sockets[client] = "connected"
    /\ addUser(client, username)
    /\ UNCHANGED <<sockets, rooms>>
    /\ out' = <<ServerEmit("userJoined", username), ServerEmit("users", getAllUsers')>>
    /\ last' = Call("join", client, 0, username)

handleCreateGroup(client, groupId, name) ==
    /\ sockets[client] = "connected"
    /\ UNCHANGED <<sockets, rooms>>
    /\ IF createGroupThrows(groupId)
       THEN /\ UNCHANGED registry
            /\ out' = <<Reply(client, "error", ErrorData(createGroupError(groupId)))>>
       ELSE /\ createGroup(groupId, name, client)
            /\ out' = <<ServerEmit("groupCreated", getGroup(groupId)'),
                        Reply(client, "groupCreated", getGroup(groupId)')>>
    /\ last' = Call("createGroup", client, groupId, name)

\* Variant of handleJoinGroup that emits 'userJoinedGroup' with the group as it
\* is before joinGroup runs.
handleJoinGroupEmitFirst(client, groupId) ==
    /\ sockets[client] = "connected"
    /\ UNCHANGED sockets
    /\ IF joinGroupThrows(groupId)
       THEN /\ UNCHANGED <<registry, rooms>>
            /\ out' = <<Reply(client, "error", ErrorData(joinGroupError(groupId)))>>
       ELSE /\ joinGroup(groupId, client)
            /\ rooms' = [rooms EXCEPT ![groupId] = @ \cup {client}]
            /\ out' = <<RoomEmit(groupId, "userJoinedGroup",
                                 [group |-> getGroup(groupId),
                                  user |-> getUserObject(client)]),
                        Reply(client, "joinedGroup",
                              [group |-> getGroup(groupId)',
                               members |-> getGroupMembers(groupId)'])>>
    /\ last' = Call("joinGroup", client, groupId, "")

\* Variant of handleJoinGroup that joins the Socket.IO room before calling the
\* service, so the room is joined even when joinGroup throws.
handleJoinGroupRoomFirst(client, groupId) ==
    /\ sockets[client] = "connected"
    /\ UNCHANGED sockets
    /\ rooms' = [rooms EXCEPT ![groupId] = @ \cup {client}]
    /\ IF joinGroupThrows(groupId)
       THEN /\ UNCHANGED registry
            /\ out' = <<Reply(client, "error", ErrorData(joinGroupError(groupId)))>>
       ELSE /\ joinGroup(groupId, client)
            /\ out' = <<RoomEmit(groupId, "userJoinedGroup",
                                 [group |-> getGroup(groupId)',
                                  user |-> getUserObject(client)']),
                        Reply(client, "joinedGroup",
                              [group |-> getGroup(groupId)',
                               members |-> getGroupMembers(groupId)'])>>
    /\ last' = Call("joinGroup", client, groupId, "")

handleJoinGroup(client, groupId) ==
    /\ sockets[client] = "connected"
    /\ UNCHANGED sockets
    /\ IF joinGroupThrows(groupId)
       THEN /\ UNCHANGED <<registry, rooms>>
            /\ out' = <<Reply(client, "error", ErrorData(joinGroupError(groupId)))>>
       ELSE /\ joinGroup(groupId, client)
            /\ rooms' = [rooms EXCEPT ![groupId] = @ \cup {client}]
            /\ out' = <<RoomEmit(groupId, "userJoinedGroup",
                                 [group |-> getGroup(groupId)',
                                  user |-> getUserObject(client)']),
                        Reply(client, "joinedGroup",
                              [group |-> getGroup(groupId)',
                               members |-> getGroupMembers(groupId)'])>>
    /\ last' = Call("joinGroup", client, groupId, "")

\* Variant of handleLeaveGroup without client.leave(`group:${groupId}`).
handleLeaveGroupNoRoomLeave(client, groupId) ==
    /\ sockets[client] = "connected"
    /\ UNCHANGED <<sockets, rooms>>
    /\ leaveGroup(groupId, client)
    /\ out' = <<RoomEmit(groupId, "userLeftGroup",
                         [groupId |-> groupId, user |-> getUserObject(client)]),
                Reply(client, "leftGroup", [groupId |-> groupId])>>
    /\ last' = Call("leaveGroup", client, groupId, "")

handleLeaveGroup(client, groupId) ==
    /\ sockets[client] = "connected"
    /\ UNCHANGED sockets
    /\ leaveGroup(groupId, client)
    /\ rooms' = [rooms EXCEPT ![groupId] = @ \ {client}]
    /\ out' = <<RoomEmit(groupId, "userLeftGroup",
                         [groupId |-> groupId, user |-> getUserObject(client)]),
                Reply(client, "leftGroup", [groupId |-> groupId])>>
    /\ last' = Call("leaveGroup", client, groupId, "")

handleGetGroups(client) ==
    /\ sockets[client] = "connected"
    /\ UNCHANGED <<registry, sockets, rooms>>
    /\ out' = <<Reply(client, "allGroups", getAllGroups)>>
    /\ last' = Call("getGroups", client, 0, "")

\* Variant of handleGetUserGroups that stores an empty clientGroups entry for
\* a client that has none (a get-or-create read).
handleGetUserGroupsInit(client) ==
    /\ sockets[client] = "connected"
    /\ clientGroups' = KeyedSet(clientGroups, client, GroupsOrEmpty(client))
    /\ UNCHANGED <<users, userObjects, groups, sockets, rooms>>
    /\ out' = <<Reply(client, "userGroups", getUserGroups(client))>>
    /\ last' = Call("getUserGroups", client, 0, "")

handleGetUserGroups(client) ==
    /\ sockets[client] = "connected"
    /\ UNCHANGED <<registry, sockets, rooms>>
    /\ out' = <<Reply(client, "userGroups", getUserGroups(client))>>
    /\ last' = Call("getUserGroups", client, 0, "")

\* Variant of handleGroupMessage without the group.members.includes(client.id) test.
handleGroupMessageNoMemberTest(client, groupId, message, timestamp) ==
    /\ sockets[client] = "connected"
    /\ UNCHANGED <<registry, sockets, rooms>>
    /\ out' =
        IF ~MapHas(userObjects, client)
        THEN <<Reply(client, "error", ErrorData("User not found"))>>
        ELSE IF ~MapHas(groups, groupId)
        THEN <<Reply(client, "error", ErrorData("Group not found"))>>
        ELSE LET messageData == [groupId |-> groupId, message |-> message,
                                 sender |-> getUserObject(client),
                                 timestamp |-> timestamp]
             IN <<RoomEmit(groupId, "groupMessage", messageData),
                  Reply(client, "messageSent", messageData)>>
    /\ last' = Call("groupMessage", client, groupId, message)

handleGroupMessage(client, groupId, message, timestamp) ==
    /\ sockets[client] = "connected"
    /\ UNCHANGED <<registry, sockets, rooms>>
    /\ out' =
        IF ~MapHas(userObjects, client)
        THEN <<Reply(client, "error", ErrorData("User not found"))>>
        ELSE IF ~MapHas(groups, groupId)
        THEN <<Reply(client, "error", ErrorData("Group not found"))>>
        ELSE IF ~Includes(getGroup(groupId).members, client)
        THEN <<Reply(client, "error", ErrorData("You are not a member of this group"))>>
        ELSE LET messageData == [groupId |-> groupId, message |-> message,
                                 sender |-> getUserObject(client),
                                 timestamp |-> timestamp]
             IN <<RoomEmit(groupId, "groupMessage", messageData),
                  Reply(client, "messageSent", messageData)>>
    /\ last' = Call("groupMessage", client, groupId, message)

\* Variant of handlePrivateMessage without the if (!recipient) test.
handlePrivateMessageNoRecipientTest(client, recipientClientId, message, timestamp) ==
    /\ sockets[client] = "connected"
    /\ UNCHANGED <<registry, sockets, rooms>>
    /\ out' =
        IF ~MapHas(userObjects, client)
        THEN <<Reply(client, "error", ErrorData("Sender not found"))>>
        ELSE LET messageData == [message |-> message,
                                 sender |-> getUserObject(client),
                                 recipient |-> getUserObject(recipientClientId),
                                 timestamp |-> timestamp]
             IN <<DirectEmit(recipientClientId, "privateMessage", messageData),
                  Reply(client, "privateMessageSent", messageData)>>
    /\ last' = Call("privateMessage", client, recipientClientId, message)

handlePrivateMessage(client, recipientClientId, message, timestamp) ==
    /\ sockets[client] = "connected"
    /\ UNCHANGED <<registry, sockets, rooms>>
    /\ out' =
        IF ~MapHas(userObjects, client)
        THEN <<Reply(client, "error", ErrorData("Sender not found"))>>
        ELSE IF ~MapHas(userObjects, recipientClientId)
        THEN <<Reply(client, "error", ErrorData("Recipient not found"))>>
        ELSE LET messageData == [message |-> message,
                                 sender |-> getUserObject(client),
                                 recipient |-> getUserObject(recipientClientId),
                                 timestamp |-> timestamp]
             IN <<DirectEmit(recipientClientId, "privateMessage", messageData),
                  Reply(client, "privateMessageSent", messageData)>>
    /\ last' = Call("privateMessage", client, recipientClientId, message)

handleGetUsers(client) ==
    /\ sockets[client] = "connected"
    /\ UNCHANGED <<registry, sockets, rooms>>
    /\ out' = <<Reply(client, "allUsers", getAllUserObjects)>>
    /\ last' = Call("getUsers", client, 0, "")

Next ==
    \/ \E c \in ClientIds : handleConnection(c)
    \/ \E c \in ClientIds : handleDisconnect(c)
    \/ \E c \in ClientIds, d \in Messages : handleMessage(c, d)
    \/ \E c \in ClientIds, d \in Messages : handleBroadcast(c, d)
    \/ \E c \in ClientIds, n \in Usernames : handleJoin(c, n)
    \/ \E c \in ClientIds, g \in GroupIds, n \in GroupNames : handleCreateGroup(c, g, n)
    \/ \E c \in ClientIds, g \in GroupIds : handleJoinGroup(c, g)
    \/ \E c \in ClientIds, g \in GroupIds : handleLeaveGroup(c, g)
    \/ \E c \in ClientIds : handleGetGroups(c)
    \/ \E c \in ClientIds : handleGetUserGroups(c)
    \/ \E c \in ClientIds, g \in GroupIds, m \in Messages, t \in Timestamps :
          handleGroupMessage(c, g, m, t)
    \/ \E c \in ClientIds, r \in ClientIds, m \in Messages, t \in Timestamps :
          handlePrivateMessage(c, r, m, t)
    \/ \E c \in ClientIds : handleGetUsers(c)

Spec == Init /\ [][Next]_vars

\* ------------------------------------------------------------- properties
\* members(g) and the membership index of c, as sets
Members(g) == IF MapHas(groups, g) THEN Elems(getGroup(g).members) ELSE {}
MembershipIndex(c) == Elems(GroupsOrEmpty(c))

\* C1: for every client c and every existing group g, c is in g.members
\* exactly when g is in clientGroups[c].
C1_BidirectionalIndex ==
    \A c \in ClientIds, g \in GroupIds :
        MapHas(groups, g) => (c \in Members(g) <=> g \in MembershipIndex(c))

\* C2: no group stored in the registry has an empty member list.
C2_NoEmptyGroup ==
    \A i \in 1..Len(groups) : Len(groups[i].v.members) > 0

\* C3: when the sole member of a group disconnects, the disconnect deletes the
\* group (getGroup returns undefined), so that the next createGroup with that id
\* does not throw.
C3_SoleMemberDisconnectFreesId ==
    [][\A g \in GroupIds :
          (/\ last'.op = "disconnect"
           /\ sockets[last'.client] = "connected"
           /\ MapHas(groups, g)
           /\ getGroup(g).members = <<last'.client>>)
          => (getGroup(g)' = Undefined /\ ~createGroupThrows(g)')]_vars

\* C4: a client whose socket has disconnected (removeUser has run for it) is in
\* the member list of no group.
C4_NoClosedMember ==
    \A c \in ClientIds, g \in GroupIds :
        sockets[c] = "closed" => c \notin Members(g)

\* C5: a join by an already registered client leaves every group's member list
\* and the client's getUserGroups result as they were.
C5_ReRegisterKeepsMembership ==
    [][\A c \in ClientIds :
          (last'.op = "join" /\ last'.client = c /\ MapHas(userObjects, c))
          => (/\ groups' = groups
              /\ getUserGroups(c)' = getUserGroups(c))]_vars

\* C6: a joinGroup(g, c) that directly follows a joinGroup(g, c) which did not
\* throw does not throw either and changes neither a member list nor the
\* membership index.
C6_JoinGroupIdempotent ==
    [][(/\ last.op = "joinGroup"
        /\ last.arg # "throw"
        /\ last'.op = "joinGroup"
        /\ last'.client = last.client
        /\ last'.groupId = last.groupId)
          => (/\ last'.arg # "throw"
              /\ groups' = groups
              /\ clientGroups' = clientGroups)]_vars

\* the second of two joinGroup(g, c) calls has returned and c is a member of g
C6_Witness ==
    /\ last.op = "joinGroup"
    /\ last.repeat
    /\ last.arg # "throw"
    /\ last.client \in Members(last.groupId)
    /\ last.groupId \in MembershipIndex(last.client)

\* C7: a removeUser(c) that directly follows a removeUser(c) changes none of
\* users, userObjects, groups and clientGroups.
C7_RemoveUserIdempotent ==
    [][(/\ last.op = "removeUser"
        /\ last'.op = "removeUser"
        /\ last'.client = last.client)
          => UNCHANGED registry]_vars

\* the second of two removeUser(c) calls has returned, with a group and another
\* user still in the registry
C7_Witness ==
    /\ last.op = "removeUser"
    /\ last.repeat
    /\ groups # <<>>
    /\ users # <<>>

\* C8: a createGroup for a taken id and a joinGroup for an unknown id each make
\* exactly one delivery, an 'error' reply {message} to the requester, and leave
\* the registry and the rooms unchanged.
C8_ErrorIsRequesterOnly ==
    [][(\/ last'.op = "createGroup" /\ createGroupThrows(last'.groupId)
        \/ last'.op = "joinGroup" /\ joinGroupThrows(last'.groupId))
          => (/\ Len(out') = 1
              /\ out'[1].scope = "requester"
              /\ out'[1].to = {last'.client}
              /\ out'[1].event = "error"
              /\ DOMAIN out'[1].data = {"message"}
              /\ UNCHANGED <<registry, rooms>>)]_vars

\* a createGroup for a taken id has just been answered
C8_Witness ==
    /\ last.op = "createGroup"
    /\ Len(out) = 1
    /\ out[1].event = "error"
    /\ out[1].data.message = createGroupError(last.groupId)
    /\ MapHas(groups, last.groupId)

\* C9: a leaveGroup(g, c) for a group that does not exist, or of which c is not
\* a member, changes neither the groups nor the membership index.
C9_LeaveGroupNoOp ==
    [][(/\ last'.op = "leaveGroup"
        /\ last'.client \notin Members(last'.groupId))
          => (/\ groups' = groups
              /\ \A c \in ClientIds : GroupsOrEmpty(c)' = GroupsOrEmpty(c))]_vars

\* C10: when a registered client c2 has joined the group g that the registered
\* client c1 created, so that members(g) = [c1, c2], the 'userJoinedGroup'
\* delivery goes to both c1 and c2 and getUserGroups(c2) is [g].
C10_MemberJoinedReachesCreator ==
    LET g == last.groupId
        c2 == last.client
    IN (/\ last.op = "joinGroup"
        /\ ~last.repeat
        /\ MapHas(groups, g)
        /\ MapHas(userObjects, c2)
        /\ MapHas(userObjects, getGroup(g).createdBy)
        /\ getGroup(g).members = <<getGroup(g).createdBy, c2>>)
       => (/\ out[1].event = "userJoinedGroup"
           /\ out[1].data.user = getUserObject(c2)
           /\ out[1].to = {getGroup(g).createdBy, c2}
           /\ getUserGroups(c2) = <<getGroup(g)>>)

\* the deliveries of the last handler with the given event name
Deliveries(event) == {i \in 1..Len(out) : out[i].event = event}

\* C11: a 'groupMessage' accepted from a registered member of g is delivered
\* to every connected socket that is a member of g, the creator included, and
\* the sender gets one 'messageSent' reply with the same payload.
C11_GroupMessageReachesMembers ==
    (last.op = "groupMessage" /\ Deliveries("error") = {})
       => (/\ Len(out) = 2
           /\ out[1].event = "groupMessage"
           /\ (Members(last.groupId) \cap Connected) \subseteq out[1].to
           /\ out[2].event = "messageSent"
           /\ out[2].scope = "requester"
           /\ out[2].to = {last.client}
           /\ out[2].data = out[1].data)

\* C12: when a registered client disconnects, every group it was a member of
\* and that has another member (so that it exists afterwards) gets a
\* 'userLeftGroup' room delivery.
C12_DisconnectNotifiesGroups ==
    [][\A c \in ClientIds, g \in GroupIds :
          (/\ last'.op = "disconnect"
           /\ last'.client = c
           /\ sockets[c] = "connected"
           /\ MapHas(userObjects, c)
           /\ c \in Members(g)
           /\ Members(g) \ {c} # {})
          => \E i \in 1..Len(out') :
                /\ out'[i].event = "userLeftGroup"
                /\ out'[i].scope = "room"
                /\ out'[i].room = "group:" \o ToString(g)]_vars

\* C13: when a registered client disconnects, all sockets are sent the user
\* list without that client and a 'userLeft' carrying the username it
\* registered with, whatever that username is.
C13_DisconnectBroadcastsUserLeft ==
    [][\A c \in ClientIds :
          (/\ last'.op = "disconnect"
           /\ last'.client = c
           /\ sockets[c] = "connected"
           /\ MapHas(users, c))
          => (/\ \E i \in 1..Len(out') :
                    /\ out'[i].event = "users"
                    /\ out'[i].scope = "all"
                    /\ out'[i].data = getAllUsers'
                    /\ ~MapHas(users', c)
              /\ \E i \in 1..Len(out') :
                    /\ out'[i].event = "userLeft"
                    /\ out'[i].scope = "all"
                    /\ out'[i].data = getUser(c))]_vars

\* C14: a 'groupMessage' from a registered client that is not in the members
\* of the existing group g makes exactly one delivery, the reply
\* {event: 'error', data: {message: 'You are not a member of this group'}},
\* and changes neither the registry nor the rooms.
C14_NonMemberGroupMessage ==
    [][\A c \in ClientIds, g \in GroupIds :
          (/\ last'.op = "groupMessage"
           /\ last'.client = c
           /\ last'.groupId = g
           /\ MapHas(userObjects, c)
           /\ MapHas(groups, g)
           /\ c \notin Members(g))
          => (/\ out' = <<Reply(c, "error",
                               ErrorData("You are not a member of this group"))>>
              /\ UNCHANGED <<registry, rooms>>)]_vars

\* a registered non-member has just been refused, in a group that has a member
C14_Witness ==
    /\ last.op = "groupMessage"
    /\ MapHas(userObjects, last.client)
    /\ MapHas(groups, last.groupId)
    /\ last.client \notin Members(last.groupId)
    /\ Members(last.groupId) # {}
    /\ Len(out) = 1
    /\ out[1].data = ErrorData("You are not a member of this group")

\* C15: a 'privateMessage' addressed to a client id without a registered user
\* makes exactly one delivery, an 'error' reply to the requester, and no
\* direct delivery, whether or not the sender is registered.  (The call record
\* of a privateMessage keeps the recipient's client id in its groupId field.)
C15_PrivateMessageToUnknown ==
    [][(last'.op = "privateMessage" /\ ~MapHas(userObjects, last'.groupId))
          => (/\ Len(out') = 1
              /\ out'[1].scope = "requester"
              /\ out'[1].to = {last'.client}
              /\ out'[1].event = "error"
              /\ DOMAIN out'[1].data = {"message"}
              /\ \A i \in 1..Len(out') : out'[i].scope # "direct")]_vars

\* a registered sender has just been told that the recipient is unknown
C15_Witness ==
    /\ last.op = "privateMessage"
    /\ MapHas(userObjects, last.client)
    /\ ~MapHas(userObjects, last.groupId)
    /\ Len(out) = 1
    /\ out[1].data = ErrorData("Recipient not found")

\* ------------------------------------------- private messaging, three sockets
\* The gateway with the handlers that decide who gets a private message
\* (connect, disconnect, join, privateMessage), with a third socket on the wire.
PmClientIds == 1..NumPmClients

PmInit ==
    /\ users = <<>>
    /\ userObjects = <<>>
    /\ groups = <<>>
    /\ clientGroups = <<>>
    /\ sockets = [c \in PmClientIds |-> "fresh"]
    /\ rooms = [g \in GroupIds |-> {}]
    /\ out = <<>>
    /\ last = [op |-> "init", client |-> 0, groupId |-> 0, arg |-> "", repeat |-> FALSE]

PmNext ==
    \/ \E c \in PmClientIds : handleConnection(c)
    \/ \E c \in PmClientIds : handleDisconnect(c)
    \/ \E c \in PmClientIds, n \in Usernames : handleJoin(c, n)
    \/ \E c \in PmClientIds, r \in PmClientIds, m \in Messages, t \in Timestamps :
          handlePrivateMessage(c, r, m, t)

PmSpec == PmInit /\ [][PmNext]_vars

\* C16: a 'privateMessage' from a registered sender s to a registered recipient
\* r makes two deliveries: 'privateMessage' to r alone and one
\* 'privateMessageSent' reply with the same payload to s alone.
C16_PrivateMessageOnlyToRecipient ==
    [][\A s \in PmClientIds, r \in PmClientIds :
          (/\ last'.op = "privateMessage"
           /\ last'.client = s
           /\ last'.groupId = r
           /\ MapHas(userObjects, s)
           /\ MapHas(userObjects, r))
          => (/\ Len(out') = 2
              /\ out'[1].event = "privateMessage"
              /\ out'[1].to = {r}
              /\ out'[1].data.sender = getUserObject(s)
              /\ out'[1].data.recipient = getUserObject(r)
              /\ out'[1].data.message = last'.arg
              /\ out'[2].event = "privateMessageSent"
              /\ out'[2].scope = "requester"
              /\ out'[2].to = {s}
              /\ out'[2].data = out'[1].data)]_vars

\* a private message has been delivered while a third registered client, neither
\* sender nor recipient, was connected
C16_Witness ==
    /\ last.op = "privateMessage"
    /\ Len(out) = 2
    /\ last.client # last.groupId
    /\ \E t \in Connected \ {last.client, last.groupId} :
          /\ MapHas(userObjects, t)
          /\ t \notin out[1].to
          /\ t \notin out[2].to

\* C17: the notifications of createGroup, joinGroup and leaveGroup are emitted
\* after the registry call: 'groupCreated' carries the group as stored and
\* listed by getAllGroups, 'userJoinedGroup' carries the stored group with the
\* joiner among its members (and in getGroupMembers when it is registered), and
\* when 'userLeftGroup' has been emitted the leaver is in the members no more.
C17_NotifyAfterMutation ==
    LET g == last.groupId
        c == last.client
    IN /\ last.op = "createGroup" =>
            \A i \in Deliveries("groupCreated") :
                /\ out[i].data = getGroup(g)
                /\ Includes(getAllGroups, out[i].data)
       /\ last.op = "joinGroup" =>
            \A i \in Deliveries("userJoinedGroup") :
                /\ out[i].data.group = getGroup(g)
                /\ Includes(out[i].data.group.members, c)
                /\ MapHas(userObjects, c) =>
                       Includes(getGroupMembers(g), getUserObject(c))
       /\ last.op = "leaveGroup" =>
            \A i \in Deliveries("userLeftGroup") :
                /\ out[i].data.groupId = g
                /\ c \notin Members(g)

\* a second member has just joined and the room has been told
C17_Witness ==
    /\ last.op = "joinGroup"
    /\ ~last.repeat
    /\ Deliveries("userJoinedGroup") = {1}
    /\ Len(out[1].data.group.members) = 2
    /\ out[1].data.group.members[2] = last.client

\* C18: a createGroup that succeeds makes exactly one delivery, 'groupCreated'
\* with the new group to all connected sockets, so that every socket, the
\* requester included, gets 'groupCreated' once.
C18_GroupCreatedOnce ==
    (last.op = "createGroup" /\ Deliveries("error") = {})
       => (/\ Len(out) = 1
           /\ out[1].scope = "all"
           /\ out[1].event = "groupCreated"
           /\ out[1].data = getGroup(last.groupId)
           /\ \A c \in Connected :
                 Cardinality({i \in Deliveries("groupCreated") : c \in out[i].to}) = 1)

\* C19: when a registered member c of g sends leaveGroup, 'userLeftGroup' with
\* {groupId, user of c} goes to the connected members of g that remain, and
\* not to c.
C19_MemberLeftToRemaining ==
    [][\A c \in ClientIds, g \in GroupIds :
          (/\ last'.op = "leaveGroup"
           /\ last'.client = c
           /\ last'.groupId = g
           /\ MapHas(userObjects, c)
           /\ c \in Members(g))
          => \E i \in 1..Len(out') :
                /\ out'[i].event = "userLeftGroup"
                /\ out'[i].data = [groupId |-> g, user |-> getUserObject(c)]
                /\ out'[i].to = Members(g)' \cap Connected'
                /\ c \notin out'[i].to]_vars

\* C20: after a createGroup(groupId, name, c) that did not throw, getGroup
\* returns {id, name, createdBy: c, members: [c]} and getUserGroups(c)
\* contains that group.
C20_CreateGroupRoundTrip ==
    (last.op = "createGroup" /\ last.arg # "throw")
       => (/\ getGroup(last.groupId) =
                 [id |-> last.groupId, name |-> last.arg,
                  createdBy |-> last.client, members |-> <<last.client>>]
           /\ Includes(getUserGroups(last.client), getGroup(last.groupId)))

\* a registered client has just created a group
C20_Witness ==
    /\ last.op = "createGroup"
    /\ last.arg # "throw"
    /\ MapHas(users, last.client)
    /\ MapHas(groups, last.groupId)
    /\ getGroup(last.groupId).createdBy = last.client

\* ------------------------------------- the handlers, one registry write a step
\* createGroup, joinGroup and leaveGroup each write the group side of the
\* membership (groups.set, members.push, members = filter / groups.delete) and
\* then the index side (clientGroups.set).  Here a handler that writes takes two
\* steps, one per side; while it is between them the arg field of the call
\* record is "running", and "returned" once it has returned.
Running == last.arg = "running"

\* Variant of Idle for handlers that yield to the event loop between their two
\* writes (an await inside the service call): an event is dispatched at any time.
IdleWhileAwaiting == TRUE

\* The handlers of EventsGateway and the methods of EventsService are
\* synchronous: the event loop dispatches the next event only when the running
\* handler has returned.
Idle == ~Running

LoopConnection(client) == Idle /\ handleConnection(client)
LoopDisconnect(client) == Idle /\ handleDisconnect(client)
LoopJoin(client, username) == Idle /\ handleJoin(client, username)
LoopGetUserGroups(client) == Idle /\ handleGetUserGroups(client)
LoopGetGroups(client) == Idle /\ handleGetGroups(client)

\* handleCreateGroup up to and including this.groups.set(groupId, group)
createGroupBegin(client, groupId, name) ==
    /\ Idle
    /\ IF createGroupThrows(groupId)
       THEN handleCreateGroup(client, groupId, name)
       ELSE /\ sockets[client] = "connected"
            /\ groups' = MapSet(groups, groupId,
                                [id |-> groupId, name |-> name,
                                 createdBy |-> client, members |-> <<client>>])
            /\ out' = <<>>
            /\ last' = Call("createGroup", client, groupId, "running")
            /\ UNCHANGED <<users, userObjects, clientGroups, sockets, rooms>>

\* the rest of handleCreateGroup: clientGroups.set, return, emit
createGroupEnd ==
    /\ Running
    /\ last.op = "createGroup"
    /\ UNCHANGED <<users, userObjects, groups, sockets, rooms>>
    /\ clientGroups' = KeyedSet(clientGroups, last.client,
                              Append(GroupsOrEmpty(last.client), last.groupId))
    /\ out' = <<ServerEmit("groupCreated", getGroup(last.groupId)),
                Reply(last.client, "groupCreated", getGroup(last.groupId))>>
    /\ last' = [last EXCEPT !.arg = "returned"]

\* handleJoinGroup up to and including group.members.push(clientId); the paths
\* that write nothing (the throw, the client already a member) run to their end
joinGroupBegin(client, groupId) ==
    /\ Idle
    /\ IF joinGroupThrows(groupId) \/ Includes(getGroup(groupId).members, client)
       THEN handleJoinGroup(client, groupId)
       ELSE /\ sockets[client] = "connected"
            /\ groups' = MapSet(groups, groupId,
                                [getGroup(groupId) EXCEPT !.members = Append(@, client)])
            /\ out' = <<>>
            /\ last' = Call("joinGroup", client, groupId, "running")
            /\ UNCHANGED <<users, userObjects, clientGroups, sockets, rooms>>

\* the rest of handleJoinGroup: clientGroups.set, return, client.join, emit
joinGroupEnd ==
    /\ Running
    /\ last.op = "joinGroup"
    /\ UNCHANGED <<users, userObjects, groups, sockets>>
    /\ clientGroups' = KeyedSet(clientGroups, last.client,
                              Append(GroupsOrEmpty(last.client), last.groupId))
    /\ rooms' = [rooms EXCEPT ![last.groupId] = @ \cup {last.client}]
    /\ out' = <<RoomEmit(last.groupId, "userJoinedGroup",
                         [group |-> getGroup(last.groupId),
                          user |-> getUserObject(last.client)]),
                Reply(last.client, "joinedGroup",
                      [group |-> getGroup(last.groupId),
                       members |-> getGroupMembers(last.groupId)])>>
    /\ last' = [last EXCEPT !.arg = "returned"]

\* handleLeaveGroup up to and including the write of the group side
\* (group.members = filter, and groups.delete when it is empty); for a group
\* that does not exist leaveGroup writes nothing and the handler runs to its end
leaveGroupBegin(client, groupId) ==
    /\ Idle
    /\ IF ~MapHas(groups, groupId)
       THEN handleLeaveGroup(client, groupId)
       ELSE /\ sockets[client] = "connected"
            /\ LET group == getGroup(groupId)
                   members == Filter(group.members, client)
               IN groups' = IF Len(members) = 0
                            THEN MapDelete(groups, groupId)
                            ELSE MapSet(groups, groupId,
                                        [group EXCEPT !.members = members])
            /\ out' = <<>>
            /\ last' = Call("leaveGroup", client, groupId, "running")
            /\ UNCHANGED <<users, userObjects, clientGroups, sockets, rooms>>

\* the rest of handleLeaveGroup: clientGroups.set, return, client.leave, emit
leaveGroupEnd ==
    /\ Running
    /\ last.op = "leaveGroup"
    /\ UNCHANGED <<users, userObjects, groups, sockets>>
    /\ clientGroups' = KeyedSet(clientGroups, last.client,
                              Filter(GroupsOrEmpty(last.client), last.groupId))
    /\ rooms' = [rooms EXCEPT ![last.groupId] = @ \ {last.client}]
    /\ out' = <<RoomEmit(last.groupId, "userLeftGroup",
                         [groupId |-> last.groupId,
                          user |-> getUserObject(last.client)]),
                Reply(last.client, "leftGroup", [groupId |-> last.groupId])>>
    /\ last' = [last EXCEPT !.arg = "returned"]

LoopNext ==
    \/ \E c \in ClientIds : LoopConnection(c)
    \/ \E c \in ClientIds : LoopDisconnect(c)
    \/ \E c \in ClientIds, n \in Usernames : LoopJoin(c, n)
    \/ \E c \in ClientIds : LoopGetUserGroups(c)
    \/ \E c \in ClientIds : LoopGetGroups(c)
    \/ \E c \in ClientIds, g \in GroupIds, n \in GroupNames : createGroupBegin(c, g, n)
    \/ createGroupEnd
    \/ \E c \in ClientIds, g \in GroupIds : joinGroupBegin(c, g)
    \/ joinGroupEnd
    \/ \E c \in ClientIds, g \in GroupIds : leaveGroupBegin(c, g)
    \/ leaveGroupEnd

LoopSpec == Init /\ [][LoopNext]_vars

\* C21: whatever events and disconnects of other connections are pending, a
\* handler that has written one side of the membership is followed by nothing
\* but its own second write: the next step is the return of that same call, no
\* other handler or query runs in between, and after it the two sides agree on
\* the caller's membership of the group.
C21_NoPartialObserved ==
    [][Running
         => (/\ last'.op = last.op
             /\ last'.client = last.client
             /\ last'.groupId = last.groupId
             /\ last'.arg = "returned"
             /\ (last.client \in Members(last.groupId)'
                   <=> last.groupId \in MembershipIndex(last.client)'))]_vars

\* a handler is between its two writes: the two sides disagree on the caller,
\* while another connection is open whose events could be pending
C21_Witness ==
    /\ Running
    /\ (last.client \in Members(last.groupId))
          # (last.groupId \in MembershipIndex(last.client))
    /\ Connected \ {last.client} # {}

\* C22: the Socket.IO room group:g never holds a socket that is not in the
\* members of g (no socket at all when g does not exist), and so no room
\* delivery ('groupMessage', 'userJoinedGroup', 'userLeftGroup') of a handler
\* reaches a socket that is not a member of the group when the handler returns.
C22_RoomWithinMembers ==
    \A g \in GroupIds :
        /\ rooms[g] \subseteq Members(g)
        /\ \A i \in 1..Len(out) :
              (out[i].scope = "room" /\ out[i].room = "group:" \o ToString(g))
                 => out[i].to \subseteq Members(g)

\* a socket has left a group that another socket is still in, members and room
\* alike, and the room has been told
C22_Witness ==
    /\ last.op = "leaveGroup"
    /\ Deliveries("userLeftGroup") = {1}
    /\ out[1].to # {}
    /\ last.client \notin out[1].to
    /\ rooms[last.groupId] = out[1].to
    /\ last.client \notin Members(last.groupId)

\* an array without a repeated element
NoDuplicates(arr) == \A i, j \in 1..Len(arr) : arr[i] = arr[j] => i = j

\* C23: every group id in a client's clientGroups entry is the id of a stored
\* group whose members contain the client, so every group that getUserGroups
\* returns for a client has the client among its members; and neither a member
\* list nor a clientGroups entry contains an element twice.
C23_IndexWithinMembers ==
    /\ \A c \in DOMAIN clientGroups :
          /\ \A g \in MembershipIndex(c) : MapHas(groups, g) /\ c \in Members(g)
          /\ \A i \in 1..Len(getUserGroups(c)) :
                Includes(getUserGroups(c)[i].members, c)
          /\ NoDuplicates(clientGroups[c])
    /\ \A i \in 1..Len(groups) : NoDuplicates(groups[i].v.members)

\* a group with two members, both with the group in their index, right after
\* one of them asked to join it a second time
C23_Witness ==
    /\ last.op = "joinGroup"
    /\ last.repeat
    /\ MapHas(groups, last.groupId)
    /\ Len(getGroup(last.groupId).members) = 2
    /\ \A c \in Members(last.groupId) :
          /\ c \in DOMAIN clientGroups
          /\ clientGroups[c] = <<last.groupId>>
          /\ getUserGroups(c) = <<getGroup(last.groupId)>>

\* the events whose handlers only read
ReadOnlyOps ==
    {"groupMessage", "privateMessage", "getGroups", "getUserGroups", "getUsers", "message"}

\* C24: the handlers of 'groupMessage', 'privateMessage', 'getGroups',
\* 'getUserGroups', 'getUsers' and 'message' change none of users, userObjects,
\* groups, clientGroups and the rooms, whether they answer with an error or not.
C24_ReadOnlyHandlers ==
    [][last'.op \in ReadOnlyOps => UNCHANGED <<registry, rooms>>]_vars

\* a read-only handler has just answered with an error while the registry holds
\* a user and a group and a room has a socket in it
C24_Witness ==
    /\ last.op = "groupMessage"
    /\ Deliveries("error") = {1}
    /\ out[1].data = ErrorData("User not found")
    /\ users # <<>>
    /\ groups # <<>>
    /\ last.groupId \in MembershipIndex(last.client)
    /\ last.client \in rooms[last.groupId]

====
